---- MODULE Spec2Model ----
(***************************************************************************)
(* Software rendering pipeline of the planetary-system simulator:          *)
(* main's frame loop, render (vertex stage, primitive assembly,            *)
(* rasterization, fragment processing), the shader dispatch of shaders.rs  *)
(* and the Framebuffer the fragments are composited into.                  *)
(*                                                                         *)
(* Abstractions.  Floating-point pixel coordinates and depths are          *)
(* integers; the colour a shader computes is the term                      *)
(* [shader, pos, time] of what it was computed from, so two colours are    *)
(* equal only if the same shader ran on the same inputs.  framebuffer.rs   *)
(* and triangle.rs are not among the sources: Framebuffer and the          *)
(* rasterizer follow sections 4.4 and 4.2 of the specification.            *)
(***************************************************************************)
EXTENDS Integers, Sequences, FiniteSets, TLC

\* ------------------------------------------------------------ bounds
\* framebuffer extent of the model (main.rs uses 800 x 600)
Width == 2
Height == 1
\* fragments written in one history of the framebuffer-level specification
MaxFrags == 3
\* fragments the rasterizer yields in one render call of the other specifications
MaxCallFrags == 2
\* length of a vertex array
MaxVerts == 6
\* largest shader_selection render is called with (0..5 name a shader)
MaxSel == 6
\* frames of the main loop
MaxTime == 2
\* fragments of one planet's mesh in the main loop
MaxMainFrags == 1
\* screen coordinates of the rasterizer's vertices are multiples of 1/Unit of
\* a pixel, from 0 to MaxCoord/Unit
Unit == 2
MaxCoord == 4
\* noise values are multiples of 1/NoiseScale, from -1 to 1
NoiseScale == 2
\* components of a fragment's normal run from -MaxNormal to MaxNormal
MaxNormal == 1
\* a ring fragment's distance from the axis, in hundredths, runs from 0 to
\* MaxDistance
MaxDistance == 9

VARIABLES
    pc,                 \* position of the modelled control flow
    framebuffer,        \* the Framebuffer struct
    time,               \* main: frame counter
    shader_selection,   \* main: keyboard-driven selection (handle_input)
    index,              \* main: index of the planet being rendered
    render_sel,         \* render: its shader_selection parameter
    nfrag,              \* render: fragments consumed in this call
    vertex_array,       \* render: its vertex_array parameter
    transformed_vertices, \* render: output of the vertex stage
    asm_i,              \* render: the loop variable i of primitive assembly
    triangles,          \* render: the assembled triangles
    written,            \* history: the fragments processed, in order
    before_last,        \* history: the framebuffer the last fragment met
    before_prev,        \* history: the framebuffer the one before it met
    clears,             \* history: calls of clear() in the current frame
    rendered,           \* history: planets rendered in the current frame
    call_shaders,       \* history: shaders of the colours written by this call
    tri_in,             \* triangle: its three screen-space vertices
    frags_out,          \* triangle: the fragments it returns
    stop_signal,        \* main: the bool inside the Arc<Mutex<bool>>
    mutex,              \* the thread holding the Mutex, or "free"
    audio_pc,           \* play_music: position of the audio thread
    shade_in,           \* shaders: the values a shader computes its blend from
    lerp_t              \* shaders: the factor last passed to Color::lerp

mainVars == <<time, shader_selection, index>>
meshVars == <<vertex_array, transformed_vertices, asm_i, triangles>>
histVars == <<written, before_last, before_prev, clears, rendered, call_shaders>>
rasterVars == <<tri_in, frags_out>>
audioVars == <<stop_signal, mutex, audio_pc>>
shadeVars == <<shade_in, lerp_t>>
vars == <<pc, framebuffer, render_sel, nfrag, mainVars, meshVars, histVars,
          rasterVars, audioVars, shadeVars>>

\* the shader state of a run that shades nothing
NoShading == [noise_value1 |-> 0, noise_value2 |-> 0, normal |-> <<0, 0, 0>>,
              distance |-> 0]
NoLerp == [shader |-> "none", num |-> 0, den |-> 1, root |-> FALSE]

\* ------------------------------------------------------------ Framebuffer
\* 0x000, the argument of set_background_color in main: the colour no shader
\* computed
BackgroundColor == [shader |-> "none", pos |-> 0, time |-> 0]
\* the "maximum distance" sentinel of clear(), which is the far reference a
\* depth is tested against
DepthInf == 3
FarPlane == DepthInf
\* depths of fragments: three in front of the far reference, one behind it
Depths == {0, 1, 2, FarPlane + 1}

Index(fb, x, y) == y * fb.width + x

FramebufferNew(w, h) ==
    [width |-> w, height |-> h,
     buffer |-> [i \in 0..(w * h - 1) |-> BackgroundColor],
     zbuffer |-> [i \in 0..(w * h - 1) |-> DepthInf],
     background_color |-> BackgroundColor,
     current_color |-> BackgroundColor]

SetBackgroundColor(fb, c) == [fb EXCEPT !.background_color = c]

SetCurrentColor(fb, c) == [fb EXCEPT !.current_color = c]

Clear(fb) ==
    [fb EXCEPT !.buffer = [i \in DOMAIN fb.buffer |-> fb.background_color],
               !.zbuffer = [i \in DOMAIN fb.zbuffer |-> DepthInf]]

\* write(x, y, color, depth) of section 4.4: silent bounds rejection, then the
\* strict depth test
Point(fb, x, y, depth) ==
    IF x < fb.width /\ y < fb.height
    THEN IF depth < fb.zbuffer[Index(fb, x, y)]
         THEN [fb EXCEPT !.buffer[Index(fb, x, y)] = fb.current_color,
                         !.zbuffer[Index(fb, x, y)] = depth]
         ELSE fb
    ELSE fb

\* ------------------------------------------------------------ shaders.rs
ShaderTags == {"cloud", "lava", "ice", "jupiter", "ring", "metal"}

\* the colour computed by the shader `name` for fragment f under uniforms u
Shaded(name, f, u) == [shader |-> name, pos |-> f.vertex_position, time |-> u.time]

lava_shader(f, u) == Shaded("lava", f, u)
ice_shader(f, u) == Shaded("ice", f, u)
cloud_shader(f, u) == Shaded("cloud", f, u)
metal_shader(f, u) == Shaded("metal", f, u)
jupiter_shader(f, u) == Shaded("jupiter", f, u)
ring_shader(f, u) == Shaded("ring", f, u)
combined_shader(f, u) == Shaded("combined", f, u)

fragment_shader(f, u, shader_type) ==
    CASE shader_type = "cloud" -> cloud_shader(f, u)
      [] shader_type = "lava" -> lava_shader(f, u)
      [] shader_type = "ice" -> ice_shader(f, u)
      [] shader_type = "jupiter" -> jupiter_shader(f, u)
      [] shader_type = "ring" -> ring_shader(f, u)
      [] shader_type = "metal" -> metal_shader(f, u)
      [] OTHER -> combined_shader(f, u)

\* ------------------------------------------------------------ render
\* the vertex stage's output for vertex v: v with its transformed fields
\* computed under uniforms u
vertex_shader(v, u) == [vertex |-> v, uniforms |-> u]

\* `v as usize` of a float: truncation, saturating at 0 for negative values
AsUsize(v) == IF v < 0 THEN 0 ELSE v

\* fragment coordinates: the first and the last pixel of row 0, a negative
\* column, a negative row, one column past the end, one row past the end
FragPositions ==
    {[x |-> 0, y |-> 0], [x |-> Width - 1, y |-> 0],
     [x |-> -1, y |-> 0], [x |-> 0, y |-> -1],
     [x |-> Width, y |-> 0], [x |-> 0, y |-> Height]}
VertexPositions == {1, 2}

\* a fragment past the end is never written, so one vertex position is enough
\* for those
Fragments ==
    {f \in [position : FragPositions, depth : Depths,
            vertex_position : VertexPositions] :
        (f.position.x >= Width \/ f.position.y >= Height) => f.vertex_position = 1}

Uniforms(t) == [time |-> t]

\* lines 165-180: the colour render ends up with for an in-bounds fragment
ShadedColor(f, u, sel) ==
    LET initial == fragment_shader(f, u, "lava")
    IN  IF sel = 0 THEN fragment_shader(f, u, "lava")
        ELSE IF sel = 1 THEN fragment_shader(f, u, "ice")
        ELSE IF sel = 2 THEN fragment_shader(f, u, "cloud")
        ELSE IF sel = 3 THEN fragment_shader(f, u, "jupiter")
        ELSE IF sel = 4 THEN fragment_shader(f, u, "ring")
        ELSE IF sel = 5 THEN fragment_shader(f, u, "metal")
        ELSE initial

\* Slips of the loop body: point before set_current_color, a write without
\* the depth test, no bounds check.
ProcessFragmentSwapped(fb, f, u, sel) ==
    LET x == AsUsize(f.position.x)
        y == AsUsize(f.position.y)
    IN  IF x < fb.width /\ y < fb.height
        THEN SetCurrentColor(Point(fb, x, y, f.depth), ShadedColor(f, u, sel))
        ELSE fb

ProcessFragmentNoDepthTest(fb, f, u, sel) ==
    LET x == AsUsize(f.position.x)
        y == AsUsize(f.position.y)
        c == ShadedColor(f, u, sel)
    IN  IF x < fb.width /\ y < fb.height
        THEN [SetCurrentColor(fb, c) EXCEPT !.buffer[Index(fb, x, y)] = c,
                                            !.zbuffer[Index(fb, x, y)] = f.depth]
        ELSE fb

ProcessFragmentNoBoundsCheck(fb, f, u, sel) ==
    LET x == AsUsize(f.position.x)
        y == AsUsize(f.position.y)
    IN  Point(SetCurrentColor(fb, ShadedColor(f, u, sel)), x, y, f.depth)

\* lines 162-185: the body of `for fragment in fragments`
ProcessFragment(fb, f, u, sel) ==
    LET x == AsUsize(f.position.x)
        y == AsUsize(f.position.y)
    IN  IF x < fb.width /\ y < fb.height
        THEN Point(SetCurrentColor(fb, ShadedColor(f, u, sel)), x, y, f.depth)
        ELSE fb

\* ------------------------------------------------------------ main
\* shader_selection of the six planets (vec! of main), planets[i + 1] for index i
planets == <<0, 1, 2, 3, 4, 5>>

\* the framebuffer main starts the frame loop with, after one clear()
ClearedFramebuffer ==
    Clear(SetBackgroundColor(FramebufferNew(Width, Height), BackgroundColor))

\* ------------------------------------------------------------ SpecFB
\* One render call (the first planet's) on a freshly cleared framebuffer; the
\* fragments the rasterizer hands to the loop are arbitrary, and every
\* processed fragment is recorded with the framebuffer it met.
InitFB ==
    /\ pc = "render"
    /\ framebuffer = ClearedFramebuffer
    /\ time = 1
    /\ shader_selection = 0
    /\ index = 0
    /\ render_sel = planets[1]
    /\ nfrag = 0
    /\ vertex_array = <<>>
    /\ transformed_vertices = <<>>
    /\ asm_i = 0
    /\ triangles = <<>>
    /\ written = <<>>
    /\ before_last = ClearedFramebuffer
    /\ before_prev = ClearedFramebuffer
    /\ clears = 0
    /\ rendered = {}
    /\ call_shaders = {}
    /\ tri_in = <<>>
    /\ frags_out = {}
    /\ stop_signal = FALSE
    /\ mutex = "free"
    /\ audio_pc = "spawned"
    /\ shade_in = NoShading
    /\ lerp_t = NoLerp

FBFragment ==
    /\ pc = "render"
    /\ Len(written) < MaxFrags
    /\ \E f \in Fragments :
          /\ framebuffer' = ProcessFragment(framebuffer, f, Uniforms(time), render_sel)
          /\ written' = Append(written, f)
    /\ before_last' = framebuffer
    /\ before_prev' = before_last
    /\ nfrag' = nfrag + 1
    /\ UNCHANGED <<pc, render_sel, mainVars, meshVars, clears, rendered,
                   call_shaders, rasterVars,
                   audioVars, shadeVars>>

NextFB == FBFragment

SpecFB == InitFB /\ [][NextFB]_vars

\* ---- the history of SpecFB
NWritten == Len(written)
\* render's x and y of a fragment, its bounds check, the cell it addresses
PixelX(f) == AsUsize(f.position.x)
PixelY(f) == AsUsize(f.position.y)
InBounds(f) == PixelX(f) < framebuffer.width /\ PixelY(f) < framebuffer.height
Cell(f) == Index(framebuffer, PixelX(f), PixelY(f))
ColorOf(f) == ShadedColor(f, Uniforms(time), render_sel)
\* the fragment's own screen position lies in [0,width) x [0,height)
InViewport(f) ==
    /\ 0 <= f.position.x /\ f.position.x < framebuffer.width
    /\ 0 <= f.position.y /\ f.position.y < framebuffer.height

\* The history is checked at its end: every prefix of a history is a reachable
\* state, so what holds of the last fragments of every state holds of all.
Last == written[NWritten]
Prev == written[NWritten - 1]
BeforeLast == before_last
BeforePrev == before_prev

\* the last two writes went to one in-bounds cell, with different depths, both
\* nearer than what the cell stored before them
TwoWrites ==
    /\ NWritten >= 2
    /\ InBounds(Prev) /\ InBounds(Last) /\ Cell(Prev) = Cell(Last)
    /\ Prev.depth # Last.depth
    /\ BeforePrev.zbuffer[Cell(Prev)] > Prev.depth
    /\ BeforePrev.zbuffer[Cell(Prev)] > Last.depth

\* C1: depth test correctness. After two consecutive writes to the same
\* in-bounds pixel with depths d1 < d2, both nearer than the depth stored
\* before, the pixel holds the colour and the depth of the d1 write, whichever
\* of the two was issued first.
C1_DepthTestCorrect ==
    TwoWrites =>
        LET near == IF Prev.depth < Last.depth THEN Prev ELSE Last
        IN  /\ framebuffer.buffer[Cell(Last)] = ColorOf(near)
            /\ framebuffer.zbuffer[Cell(Last)] = near.depth

\* the nearer write came first and the farther one, of another colour, was
\* rejected
C1_Witness ==
    /\ TwoWrites
    /\ Prev.depth < Last.depth
    /\ ColorOf(Prev) # ColorOf(Last)

\* C2: a write to an in-bounds pixel changes the stored colour or depth only
\* if its depth is strictly less than the stored depth; on an equal or greater
\* depth both buffers are left as they were (a tie keeps the earlier pixel),
\* and processing the same fragment twice leaves the state of processing it
\* once.
C2_StrictDepthTest ==
    /\ (NWritten >= 1 /\ InBounds(Last)) =>
          /\ (\/ framebuffer.buffer[Cell(Last)] # BeforeLast.buffer[Cell(Last)]
              \/ framebuffer.zbuffer[Cell(Last)] # BeforeLast.zbuffer[Cell(Last)])
                => Last.depth < BeforeLast.zbuffer[Cell(Last)]
          /\ Last.depth >= BeforeLast.zbuffer[Cell(Last)]
                => /\ framebuffer.buffer = BeforeLast.buffer
                   /\ framebuffer.zbuffer = BeforeLast.zbuffer
    /\ (NWritten >= 2 /\ Prev = Last) => framebuffer = BeforeLast

\* a fragment that wrote its cell was processed a second time, and then a
\* fragment of another colour tied with it in depth at that cell
C2_Witness ==
    /\ NWritten >= 3
    /\ written[NWritten - 2] = Prev
    /\ InBounds(Prev) /\ InBounds(Last) /\ Cell(Prev) = Cell(Last)
    /\ BeforePrev.buffer[Cell(Prev)] = ColorOf(Prev)
    /\ BeforePrev.zbuffer[Cell(Prev)] = Prev.depth
    /\ Prev.depth = Last.depth /\ ColorOf(Prev) # ColorOf(Last)

WritesTo(c) ==
    {i \in 1..NWritten : Cell(written[i]) = c /\ written[i].depth < DepthInf}
Nearest(c) ==
    CHOOSE i \in WritesTo(c) :
        \A j \in WritesTo(c) : written[i].depth <= written[j].depth
NoDepthTie ==
    \A i, j \in 1..NWritten :
        (i # j /\ Cell(written[i]) = Cell(written[j]))
            => written[i].depth # written[j].depth

\* C4: draw-order independence. When every processed fragment lies in the
\* viewport and no two of them at one pixel have equal depth, the colour and
\* depth buffers are determined by the set of writes alone: each cell holds
\* the nearest write made to it, or the cleared values if there was none,
\* in whatever order the writes were made.
C4_OrderIndependent ==
    ((\A i \in 1..NWritten : InViewport(written[i])) /\ NoDepthTie) =>
        \A c \in DOMAIN framebuffer.buffer :
            IF WritesTo(c) = {}
            THEN /\ framebuffer.buffer[c] = framebuffer.background_color
                 /\ framebuffer.zbuffer[c] = DepthInf
            ELSE /\ framebuffer.buffer[c] = ColorOf(written[Nearest(c)])
                 /\ framebuffer.zbuffer[c] = written[Nearest(c)].depth

\* three writes of distinct depths to one pixel, the nearest in the middle
C4_Witness ==
    /\ NWritten >= 3
    /\ \A i \in 1..NWritten : InViewport(written[i])
    /\ NoDepthTie
    /\ Cell(written[1]) = Cell(written[2])
    /\ Cell(written[2]) = Cell(written[3])
    /\ written[2].depth < written[1].depth
    /\ written[2].depth < written[3].depth
    /\ written[3].depth < DepthInf

\* C5: as claimed. When every processed fragment lies outside the viewport
\* (negative coordinates included) or behind the far reference, the colour and
\* depth buffers are those of a freshly cleared framebuffer.
C5_OutsideLeavesCleared ==
    (\A i \in 1..NWritten :
        ~InViewport(written[i]) \/ written[i].depth > FarPlane)
    => /\ framebuffer.buffer = ClearedFramebuffer.buffer
       /\ framebuffer.zbuffer = ClearedFramebuffer.zbuffer


\* ------------------------------------------------------------ SpecRender
\* One call of render(framebuffer, uniforms, vertex_array, shader_selection)
\* on a cleared framebuffer, for any vertex array and any shader_selection.
\* The vertices of a mesh are told apart by their place in the array.
VertexArrays ==
    {[k \in 1..n |-> k] : n \in 0..MaxVerts}

InitRender ==
    /\ pc = "vertex"
    /\ framebuffer = ClearedFramebuffer
    /\ time = 1
    /\ shader_selection = 0
    /\ index = 0
    /\ render_sel \in 0..MaxSel
    /\ nfrag = 0
    /\ vertex_array \in VertexArrays
    /\ transformed_vertices = <<>>
    /\ asm_i = 0
    /\ triangles = <<>>
    /\ written = <<>>
    /\ before_last = ClearedFramebuffer
    /\ before_prev = ClearedFramebuffer
    /\ clears = 0
    /\ rendered = {}
    /\ call_shaders = {}
    /\ tri_in = <<>>
    /\ frags_out = {}
    /\ stop_signal = FALSE
    /\ mutex = "free"
    /\ audio_pc = "spawned"
    /\ shade_in = NoShading
    /\ lerp_t = NoLerp

\* lines 137-141
VertexStage ==
    /\ pc = "vertex"
    /\ transformed_vertices' =
          [k \in 1..Len(vertex_array) |-> vertex_shader(vertex_array[k], Uniforms(time))]
    /\ asm_i' = 0
    /\ triangles' = <<>>
    /\ pc' = "assembly"
    /\ UNCHANGED <<framebuffer, render_sel, nfrag, mainVars, vertex_array, histVars, rasterVars,
                   audioVars, shadeVars>>

\* a slip of the loop's guard: the last full triple is dropped
AssemblyStepOffByOne ==
    /\ pc = "assembly"
    /\ asm_i < Len(transformed_vertices)
    /\ triangles' =
          IF asm_i + 3 < Len(transformed_vertices)
          THEN Append(triangles, <<transformed_vertices[asm_i + 1],
                                   transformed_vertices[asm_i + 2],
                                   transformed_vertices[asm_i + 3]>>)
          ELSE triangles
    /\ asm_i' = asm_i + 3
    /\ UNCHANGED <<pc, framebuffer, render_sel, nfrag, mainVars, vertex_array,
                   transformed_vertices, histVars, rasterVars,
                   audioVars, shadeVars>>

\* lines 145-153, one iteration of `for i in (0..len).step_by(3)`; the
\* sequences of the model start at 1, so transformed_vertices[i] is
\* transformed_vertices[asm_i + 1] here
AssemblyStep ==
    /\ pc = "assembly"
    /\ asm_i < Len(transformed_vertices)
    /\ triangles' =
          IF asm_i + 2 < Len(transformed_vertices)
          THEN Append(triangles, <<transformed_vertices[asm_i + 1],
                                   transformed_vertices[asm_i + 2],
                                   transformed_vertices[asm_i + 3]>>)
          ELSE triangles
    /\ asm_i' = asm_i + 3
    /\ UNCHANGED <<pc, framebuffer, render_sel, nfrag, mainVars, vertex_array,
                   transformed_vertices, histVars, rasterVars,
                   audioVars, shadeVars>>

\* lines 155-159: the assembly loop is over, every triangle is rasterized
Rasterization ==
    /\ pc = "assembly"
    /\ asm_i >= Len(transformed_vertices)
    /\ nfrag' = 0
    /\ pc' = "fragments"
    /\ UNCHANGED <<framebuffer, render_sel, mainVars, meshVars, histVars, rasterVars,
                   audioVars, shadeVars>>

\* lines 162-185, one iteration: fragments exist only if a triangle does
RenderFragment ==
    /\ pc = "fragments"
    /\ triangles # <<>>
    /\ nfrag < MaxCallFrags
    /\ \E f \in Fragments :
          framebuffer' = ProcessFragment(framebuffer, f, Uniforms(time), render_sel)
    /\ nfrag' = nfrag + 1
    /\ UNCHANGED <<pc, render_sel, mainVars, meshVars, histVars, rasterVars,
                   audioVars, shadeVars>>

\* line 186
RenderReturn ==
    /\ pc = "fragments"
    /\ pc' = "done"
    /\ UNCHANGED <<framebuffer, render_sel, nfrag, mainVars, meshVars, histVars, rasterVars,
                   audioVars, shadeVars>>

NextRender ==
    \/ VertexStage
    \/ AssemblyStep
    \/ Rasterization
    \/ RenderFragment
    \/ RenderReturn

SpecRender == InitRender /\ [][NextRender]_vars

\* C6: primitive assembly. Once the assembly loop is over, a vertex array of
\* length n has given exactly n \div 3 triangles, the k-th of them the
\* transformed vertices 3k-2, 3k-1, 3k (counting from 1) of the array in that
\* order, so that no vertex is in two triangles and the last n % 3 vertices are
\* in none; this for every n from 0 on.
C6_PrimitiveAssembly ==
    pc \in {"fragments", "done"} =>
        /\ Len(triangles) = Len(vertex_array) \div 3
        /\ \A k \in 1..Len(triangles) :
              triangles[k] =
                <<vertex_shader(vertex_array[3 * k - 2], Uniforms(time)),
                  vertex_shader(vertex_array[3 * k - 1], Uniforms(time)),
                  vertex_shader(vertex_array[3 * k], Uniforms(time))>>

\* one triangle was assembled and two trailing vertices were dropped
C6_Witness ==
    /\ pc = "done"
    /\ Len(vertex_array) = 5
    /\ Len(triangles) = 1
    /\ framebuffer # ClearedFramebuffer

\* the tags fragment_shader is called with that name no surface shader
OtherTags == {"combined", "sun", ""}

\* C10: as claimed. A selection that names none of the six surface shaders is
\* shaded with the combined shader: fragment_shader with an unrecognised tag,
\* and render with a shader_selection outside 0..5.
C10_UnknownSelectionCombined ==
    /\ \A f \in Fragments, tag \in OtherTags :
          fragment_shader(f, Uniforms(time), tag) = combined_shader(f, Uniforms(time))
    /\ render_sel \notin 0..5 =>
          \A c \in DOMAIN framebuffer.buffer :
              framebuffer.zbuffer[c] < DepthInf
                  => framebuffer.buffer[c].shader = "combined"

\* ------------------------------------------------------------ SpecMain
\* main's frame loop: handle_input, clear, one render call per planet, then
\* the buffer is handed to the window.  The fragments of a planet's mesh are
\* arbitrary.
NumPadKeys == {0, 1, 2, 3}

\* lines 396-413 of handle_input: the pressed NumPad keys are tested in order,
\* the last one pressed wins
handle_input(sel, keys) ==
    IF 3 \in keys THEN 3
    ELSE IF 2 \in keys THEN 2
    ELSE IF 1 \in keys THEN 1
    ELSE IF 0 \in keys THEN 0
    ELSE sel

InitMain ==
    /\ pc = "loop"
    /\ framebuffer = SetBackgroundColor(FramebufferNew(Width, Height), BackgroundColor)
    /\ time = 0
    /\ shader_selection = 0
    /\ index = 0
    /\ render_sel = 0
    /\ nfrag = 0
    /\ vertex_array = <<>>
    /\ transformed_vertices = <<>>
    /\ asm_i = 0
    /\ triangles = <<>>
    /\ written = <<>>
    /\ before_last = ClearedFramebuffer
    /\ before_prev = ClearedFramebuffer
    /\ clears = 0
    /\ rendered = {}
    /\ call_shaders = {}
    /\ tri_in = <<>>
    /\ frags_out = {}
    /\ stop_signal = FALSE
    /\ mutex = "free"
    /\ audio_pc = "spawned"
    /\ shade_in = NoShading
    /\ lerp_t = NoLerp

\* lines 285-288: the window was closed or Escape is down
LoopExit ==
    /\ pc = "loop"
    /\ pc' = "exit"
    /\ UNCHANGED <<framebuffer, render_sel, nfrag, mainVars, meshVars, histVars,
                   rasterVars,
                   audioVars, shadeVars>>

\* lines 290-292
FrameStart ==
    /\ pc = "loop"
    /\ time < MaxTime
    /\ time' = time + 1
    /\ \E keys \in SUBSET NumPadKeys :
          shader_selection' = handle_input(shader_selection, keys)
    /\ clears' = 0
    /\ rendered' = {}
    /\ pc' = "clear"
    /\ UNCHANGED <<framebuffer, render_sel, nfrag, index, meshVars, written,
                   before_last, before_prev, call_shaders, rasterVars,
                   audioVars, shadeVars>>

\* a slip: the framebuffer is cleared in the first frame only
MainClearFirstFrameOnly ==
    /\ pc = "clear"
    /\ framebuffer' = IF time = 1 THEN Clear(framebuffer) ELSE framebuffer
    /\ clears' = IF time = 1 THEN clears + 1 ELSE clears
    /\ index' = 0
    /\ pc' = "planets"
    /\ UNCHANGED <<render_sel, nfrag, time, shader_selection, meshVars, written,
                   before_last, before_prev, rendered, call_shaders, rasterVars,
                   audioVars, shadeVars>>

\* lines 294-304: clear, the frame's matrices, the first planet is next
MainClear ==
    /\ pc = "clear"
    /\ framebuffer' = Clear(framebuffer)
    /\ clears' = clears + 1
    /\ index' = 0
    /\ pc' = "planets"
    /\ UNCHANGED <<render_sel, nfrag, time, shader_selection, meshVars, written,
                   before_last, before_prev, rendered, call_shaders, rasterVars,
                   audioVars, shadeVars>>

\* a slip: render is given the keyboard-driven selection
RenderCallKeyboardSelection ==
    /\ pc = "planets"
    /\ index < Len(planets)
    /\ render_sel' = shader_selection
    /\ nfrag' = 0
    /\ call_shaders' = {}
    /\ pc' = "fragments"
    /\ UNCHANGED <<framebuffer, mainVars, meshVars, written, before_last,
                   before_prev, clears, rendered, rasterVars,
                   audioVars, shadeVars>>

\* lines 304-337: the planet's uniforms are built and render is called with
\* the planet's own shader_selection
RenderCall ==
    /\ pc = "planets"
    /\ index < Len(planets)
    /\ render_sel' = planets[index + 1]
    /\ nfrag' = 0
    /\ call_shaders' = {}
    /\ pc' = "fragments"
    /\ UNCHANGED <<framebuffer, mainVars, meshVars, written, before_last,
                   before_prev, clears, rendered, rasterVars,
                   audioVars, shadeVars>>

\* The fragments of a planet's mesh in the main loop: those render can write
\* (a fragment past the end or behind the far reference changes nothing), of
\* one vertex position.
MainFragments ==
    {f \in Fragments :
        /\ f.position.x < Width /\ f.position.y < Height
        /\ f.depth < DepthInf
        /\ f.vertex_position = 1}

\* the cells a step wrote: every write lowers the cell's depth
WrittenCells(old, new) ==
    {c \in DOMAIN old.zbuffer : new.zbuffer[c] # old.zbuffer[c]}

\* lines 162-185 within the call of lines 332-337, one iteration
MainFragment ==
    /\ pc = "fragments"
    /\ nfrag < MaxMainFrags
    /\ \E f \in MainFragments :
          framebuffer' = ProcessFragment(framebuffer, f, Uniforms(time), render_sel)
    /\ call_shaders' =
          call_shaders \cup
            {framebuffer'.buffer[c].shader : c \in WrittenCells(framebuffer, framebuffer')}
    /\ nfrag' = nfrag + 1
    /\ UNCHANGED <<pc, render_sel, mainVars, meshVars, written, before_last,
                   before_prev, clears, rendered, rasterVars,
                   audioVars, shadeVars>>

\* line 338: render has returned (its parameter and its locals are gone),
\* the next planet
MainRenderReturn ==
    /\ pc = "fragments"
    /\ rendered' = rendered \cup {index}
    /\ index' = index + 1
    /\ render_sel' = 0
    /\ nfrag' = 0
    /\ call_shaders' = {}
    /\ pc' = "planets"
    /\ UNCHANGED <<framebuffer, time, shader_selection, meshVars, written,
                   before_last, before_prev, clears, rasterVars,
                   audioVars, shadeVars>>

\* the planets loop is over: framebuffer.buffer is what update_with_buffer shows
Presenting == pc = "planets" /\ index = Len(planets)

\* lines 340-344
Present ==
    /\ Presenting
    /\ pc' = "loop"
    /\ UNCHANGED <<framebuffer, render_sel, nfrag, mainVars, meshVars, histVars,
                   rasterVars,
                   audioVars, shadeVars>>

NextMain ==
    \/ LoopExit
    \/ FrameStart
    \/ MainClear
    \/ RenderCall
    \/ MainFragment
    \/ MainRenderReturn
    \/ Present

SpecMain == InitMain /\ [][NextMain]_vars

\* C8: in every frame the framebuffer is cleared exactly once, before the
\* first planet is rendered (every colour cell the background, every depth
\* cell the sentinel), and the buffer is presented only after all planets were
\* rendered; every pixel of a presented buffer that is not background was
\* shaded with the time of the frame presented.
C8_ClearedEveryFrame ==
    /\ pc = "clear" => clears = 0
    /\ pc \in {"planets", "fragments"} => clears = 1
    /\ (pc = "planets" /\ index = 0) =>
          /\ framebuffer.buffer = [c \in DOMAIN framebuffer.buffer |-> BackgroundColor]
          /\ framebuffer.zbuffer = [c \in DOMAIN framebuffer.zbuffer |-> DepthInf]
    /\ Presenting =>
          /\ rendered = 0..(Len(planets) - 1)
          /\ \A c \in DOMAIN framebuffer.buffer :
                framebuffer.buffer[c] # BackgroundColor
                    => framebuffer.buffer[c].time = time

\* a second frame is presented with a pixel drawn in it
C8_Witness ==
    /\ Presenting
    /\ time >= 2
    /\ \E c \in DOMAIN framebuffer.buffer : framebuffer.buffer[c] # BackgroundColor

\* the shader a shader_selection stands for
SurfaceShader(sel) ==
    CASE sel = 0 -> "lava"
      [] sel = 1 -> "ice"
      [] sel = 2 -> "cloud"
      [] sel = 3 -> "jupiter"
      [] sel = 4 -> "ring"
      [] sel = 5 -> "metal"

ScreenPositions == [x : 0..MaxCoord, y : 0..MaxCoord]

edge_function(a, b, c) ==
    (c.x - a.x) * (b.y - a.y) - (c.y - a.y) * (b.x - a.x)

Min3(a, b, c) == IF a <= b /\ a <= c THEN a ELSE IF b <= c THEN b ELSE c
Max3(a, b, c) == IF a >= b /\ a >= c THEN a ELSE IF b >= c THEN b ELSE c
Floor(c) == c \div Unit
Ceil(c) == (c + Unit - 1) \div Unit

\* a slip: the upper corner of the box is rounded down
calculate_bounding_box_floor(a, b, c) ==
    [min_x |-> Floor(Min3(a.x, b.x, c.x)), min_y |-> Floor(Min3(a.y, b.y, c.y)),
     max_x |-> Floor(Max3(a.x, b.x, c.x)) - 1, max_y |-> Floor(Max3(a.y, b.y, c.y)) - 1]

\* step 1: the integer bounding box of the three vertices
calculate_bounding_box(a, b, c) ==
    [min_x |-> Floor(Min3(a.x, b.x, c.x)), min_y |-> Floor(Min3(a.y, b.y, c.y)),
     max_x |-> Ceil(Max3(a.x, b.x, c.x)), max_y |-> Ceil(Max3(a.y, b.y, c.y))]

\* step 2: the numerators of the three weights of pixel (px, py)
barycentric_coordinates(px, py, a, b, c) ==
    LET p == [x |-> px * Unit, y |-> py * Unit]
    IN  <<edge_function(b, c, p), edge_function(c, a, p), edge_function(a, b, p)>>

\* the weight n/area is not negative
NonNegative(n, area) == n * area >= 0

\* steps 2-5: one fragment per pixel of the box whose weights are all
\* non-negative; step 3: a triangle of zero area gives none
triangle(a, b, c) ==
    LET area == edge_function(a, b, c)
        box == calculate_bounding_box(a, b, c)
    IN  IF area = 0 THEN {}
        ELSE {[position |-> [x |-> px, y |-> py],
               weights |-> barycentric_coordinates(px, py, a, b, c),
               area |-> area] :
                <<px, py>> \in
                  {q \in (box.min_x..box.max_x) \X (box.min_y..box.max_y) :
                     LET w == barycentric_coordinates(q[1], q[2], a, b, c)
                     IN  /\ NonNegative(w[1], area)
                         /\ NonNegative(w[2], area)
                         /\ NonNegative(w[3], area)}}

InitRaster ==
    /\ pc = "triangle"
    /\ framebuffer = ClearedFramebuffer
    /\ time = 1
    /\ shader_selection = 0
    /\ index = 0
    /\ render_sel = 0
    /\ nfrag = 0
    /\ vertex_array = <<>>
    /\ transformed_vertices = <<>>
    /\ asm_i = 0
    /\ triangles = <<>>
    /\ written = <<>>
    /\ before_last = ClearedFramebuffer
    /\ before_prev = ClearedFramebuffer
    /\ clears = 0
    /\ rendered = {}
    /\ call_shaders = {}
    /\ tri_in \in ScreenPositions \X ScreenPositions \X ScreenPositions
    /\ frags_out = {}
    /\ stop_signal = FALSE
    /\ mutex = "free"
    /\ audio_pc = "spawned"
    /\ shade_in = NoShading
    /\ lerp_t = NoLerp

Rasterize ==
    /\ pc = "triangle"
    /\ frags_out' = triangle(tri_in[1], tri_in[2], tri_in[3])
    /\ pc' = "rasterized"
    /\ UNCHANGED <<framebuffer, render_sel, nfrag, mainVars, meshVars, histVars,
                   tri_in, audioVars, shadeVars>>

NextRaster == Rasterize

SpecRaster == InitRaster /\ [][NextRaster]_vars

\* the signed area of the triangle rasterized
Area == edge_function(tri_in[1], tri_in[2], tri_in[3])

\* a fragment's three weights lie in [0,1] and sum to 1
WeightsInRange(f) ==
    /\ \A k \in 1..3 :
          /\ f.weights[k] * f.area >= 0
          /\ f.weights[k] * f.area <= f.area * f.area
    /\ f.weights[1] + f.weights[2] + f.weights[3] = f.area

\* pixel (px, py) lies in the closed triangle: it is not strictly on both
\* sides of its edges
Covered(px, py) ==
    LET p == [x |-> px * Unit, y |-> py * Unit]
        e == <<edge_function(tri_in[1], tri_in[2], p),
               edge_function(tri_in[2], tri_in[3], p),
               edge_function(tri_in[3], tri_in[1], p)>>
    IN  ~((\E k \in 1..3 : e[k] > 0) /\ (\E k \in 1..3 : e[k] < 0))

Pixels == (0..Ceil(MaxCoord)) \X (0..Ceil(MaxCoord))

\* C7: as claimed. A triangle of non-zero area gives at least one fragment,
\* and the weights of every fragment lie in [0,1] and sum to 1.
C7_PositiveAreaNonEmpty ==
    (pc = "rasterized" /\ Area # 0) =>
        /\ frags_out # {}
        /\ \A f \in frags_out : WeightsInRange(f)

\* C7, amended. The weights of every fragment of a triangle of non-zero area
\* lie in [0,1] and sum to 1, and the triangle gives a fragment for exactly
\* the integer pixels that lie in it (its edges and vertices included): at
\* least one when it has a vertex on a pixel, none when it covers no pixel.
C7_FragmentsOfCoveredPixels ==
    (pc = "rasterized" /\ Area # 0) =>
        /\ \A f \in frags_out : WeightsInRange(f)
        /\ {<<f.position.x, f.position.y>> : f \in frags_out}
              = {q \in Pixels : Covered(q[1], q[2])}
        /\ (\E k \in 1..3 : tri_in[k].x % Unit = 0 /\ tri_in[k].y % Unit = 0)
              => frags_out # {}

\* a triangle with no vertex on a pixel that has a fragment strictly inside
\* and one on an edge
C7_Witness ==
    /\ pc = "rasterized"
    /\ Area # 0
    /\ \A k \in 1..3 : tri_in[k].x % Unit # 0 \/ tri_in[k].y % Unit # 0
    /\ \E f \in frags_out : \A k \in 1..3 : f.weights[k] # 0
    /\ \E f \in frags_out : \E k \in 1..3 : f.weights[k] = 0

\* ------------------------------------------------- main and the audio thread
\* main spawns play_music on its own thread before the frame loop and shares
\* one Mutex<bool> with it. Each lock() is a step of its own, so that every
\* interleaving of the two threads around the mutex is explored; a guard is
\* a temporary and is dropped at the end of the expression that took it.

\* play_music up to its loop: the output stream, the file, the decoder and
\* play_raw, with an output device and the music file in place
AudioSetup ==
    /\ audio_pc = "spawned"
    /\ audio_pc' = "poll"
    /\ UNCHANGED <<pc, framebuffer, render_sel, nfrag, mainVars, meshVars, histVars,
                   rasterVars, stop_signal, mutex, shadeVars>>

\* the loop condition takes the lock
AudioLock ==
    /\ audio_pc = "poll"
    /\ mutex = "free"
    /\ mutex' = "audio"
    /\ audio_pc' = "locked"
    /\ UNCHANGED <<pc, framebuffer, render_sel, nfrag, mainVars, meshVars, histVars,
                   rasterVars, stop_signal, shadeVars>>

\* A slip of the loop: the guard is kept while the thread sleeps.
AudioReadKeepingGuard ==
    /\ audio_pc = "locked"
    /\ audio_pc' = IF stop_signal THEN "returned" ELSE "poll"
    /\ UNCHANGED <<pc, framebuffer, render_sel, nfrag, mainVars, meshVars, histVars,
                   rasterVars, stop_signal, mutex, shadeVars>>

\* the loop condition reads the flag and drops the guard; on false the body
\* sleeps 100 ms, without the lock, and the condition is evaluated again
AudioRead ==
    /\ audio_pc = "locked"
    /\ mutex' = "free"
    /\ audio_pc' = IF stop_signal THEN "returned" ELSE "poll"
    /\ UNCHANGED <<pc, framebuffer, render_sel, nfrag, mainVars, meshVars, histVars,
                   rasterVars, stop_signal, shadeVars>>

play_music == AudioSetup \/ AudioLock \/ AudioRead

\* main after the frame loop: stop_signal.lock()
MainLock ==
    /\ pc = "exit"
    /\ mutex = "free"
    /\ mutex' = "main"
    /\ pc' = "stop"
    /\ UNCHANGED <<framebuffer, render_sel, nfrag, mainVars, meshVars, histVars,
                   rasterVars, stop_signal, audio_pc, shadeVars>>

\* the assignment through the guard, which is dropped with the statement
MainStop ==
    /\ pc = "stop"
    /\ stop_signal' = TRUE
    /\ mutex' = "free"
    /\ pc' = "join"
    /\ UNCHANGED <<framebuffer, render_sel, nfrag, mainVars, meshVars, histVars,
                   rasterVars, audio_pc, shadeVars>>

\* music_thread.join().unwrap(): waits for the thread to return; main ends
MainJoin ==
    /\ pc = "join"
    /\ audio_pc = "returned"
    /\ pc' = "done"
    /\ UNCHANGED <<framebuffer, render_sel, nfrag, mainVars, meshVars, histVars,
                   rasterVars, audioVars, shadeVars>>

Shutdown == MainLock \/ MainStop \/ MainJoin

NextAudio ==
    \/ LoopExit
    \/ FrameStart
    \/ MainClear
    \/ RenderCall
    \/ MainFragment
    \/ MainRenderReturn
    \/ Present
    \/ AudioSetup
    \/ AudioLock
    \/ AudioRead
    \/ MainLock
    \/ MainStop
    \/ MainJoin

\* Both threads are scheduled fairly. The audio thread is held up only while
\* main holds the mutex, which main does for one assignment, so it needs no
\* more than to run when it stays able to. Main's lock() finds the mutex taken
\* whenever the audio thread is reading the flag, so main needs its lock() to
\* be served when the mutex is free again and again: the audio thread holds
\* it for one read and sleeps between its reads. The frame loop itself runs
\* for as long as the window stays open.
AudioFairness ==
    /\ WF_vars(play_music)
    /\ SF_vars(Shutdown)

SpecAudio == InitMain /\ [][NextAudio]_vars /\ AudioFairness

\* main has left the frame loop
LoopExited == pc \in {"exit", "stop", "join", "done"}
\* main has returned: the process has ended
Terminated == pc = "done"
\* the audio thread is in its polling loop
Polling == audio_pc \in {"poll", "locked"}

NoiseValues == (0 - NoiseScale)..NoiseScale
\* fragment normals, the zero vector among them
Normals == {<<a, b, c>> : a \in (0 - MaxNormal)..MaxNormal,
                          b \in (0 - MaxNormal)..MaxNormal,
                          c \in (0 - MaxNormal)..MaxNormal}
\* Vec3::new(0.5, 0.5, 1.0), doubled
light_dir == <<1, 1, 2>>
\* ring_shader's widths, in hundredths
ring_width == 2
ring_spacing == 8

dot(a, b) == a[1] * b[1] + a[2] * b[2] + a[3] * b[3]

\* lava_shader: (noise_value1 + noise_value2) * 0.5
noise_value(noise_value1, noise_value2) ==
    [shader |-> "lava", num |-> noise_value1 + noise_value2,
     den |-> 2 * NoiseScale, root |-> FALSE]

\* metal_shader: normal.normalize().dot(&light_dir.normalize()).max(0.0);
\* a zero normal normalizes to NaN, of which max(0.0) makes 0.0
dot_product(normal) ==
    IF dot(normal, normal) = 0
    THEN [shader |-> "metal", num |-> 0, den |-> 1, root |-> FALSE]
    ELSE [shader |-> "metal",
          num |-> IF dot(normal, light_dir) > 0 THEN dot(normal, light_dir) ELSE 0,
          den |-> dot(normal, normal) * dot(light_dir, light_dir),
          root |-> TRUE]

\* ring_shader: ((distance % ring_spacing) / ring_width).abs(), over ring_width
ring_pattern(distance) == distance % ring_spacing
\* ring_shader: 1.0 - ring_pattern below 1.0 and 0.0 from there, over ring_width
ring_intensity(distance) ==
    IF ring_pattern(distance) < ring_width
    THEN ring_width - ring_pattern(distance)
    ELSE 0
\* ring_shader: 1.0 - ring_intensity
ring_blend(distance) ==
    [shader |-> "ring", num |-> ring_width - ring_intensity(distance),
     den |-> ring_width, root |-> FALSE]

InitShade ==
    /\ pc = "shade"
    /\ framebuffer = ClearedFramebuffer
    /\ time = 1
    /\ shader_selection = 0
    /\ index = 0
    /\ render_sel = 0
    /\ nfrag = 0
    /\ vertex_array = <<>>
    /\ transformed_vertices = <<>>
    /\ asm_i = 0
    /\ triangles = <<>>
    /\ written = <<>>
    /\ before_last = ClearedFramebuffer
    /\ before_prev = ClearedFramebuffer
    /\ clears = 0
    /\ rendered = {}
    /\ call_shaders = {}
    /\ tri_in = <<>>
    /\ frags_out = {}
    /\ stop_signal = FALSE
    /\ mutex = "free"
    /\ audio_pc = "spawned"
    /\ shade_in \in [noise_value1 : NoiseValues, noise_value2 : NoiseValues,
                     normal : Normals, distance : 0..MaxDistance]
    /\ lerp_t = NoLerp

LavaShade ==
    /\ pc = "shade"
    /\ lerp_t' = noise_value(shade_in.noise_value1, shade_in.noise_value2)
    /\ pc' = "shaded"
    /\ UNCHANGED <<framebuffer, render_sel, nfrag, mainVars, meshVars, histVars,
                   rasterVars, audioVars, shade_in>>

MetalShade ==
    /\ pc = "shade"
    /\ lerp_t' = dot_product(shade_in.normal)
    /\ pc' = "shaded"
    /\ UNCHANGED <<framebuffer, render_sel, nfrag, mainVars, meshVars, histVars,
                   rasterVars, audioVars, shade_in>>

RingShade ==
    /\ pc = "shade"
    /\ lerp_t' = ring_blend(shade_in.distance)
    /\ pc' = "shaded"
    /\ UNCHANGED <<framebuffer, render_sel, nfrag, mainVars, meshVars, histVars,
                   rasterVars, audioVars, shade_in>>

NextShade ==
    \/ LavaShade
    \/ MetalShade
    \/ RingShade

SpecShade == InitShade /\ [][NextShade]_vars

\* a blend factor inside [0, 1]
InUnitRange(t) ==
    /\ t.num >= 0
    /\ IF t.root THEN t.num * t.num <= t.den ELSE t.num <= t.den

\* C12: every blend factor a shader passes to Color::lerp is inside [0, 1],
\* for every fragment and every noise value in [-1, 1].
C12_BlendFactorInUnitRange == pc = "shaded" => InUnitRange(lerp_t)
====
